---- MODULE Spec2Model ----
(***************************************************************************)
(* The provider rotation engine of llm-proxy: the Provider record and the  *)
(* ProviderRegistry of providers.py, and the dispatcher                     *)
(* (try_providers_in_order, make_request_to_provider, parse_retry_after)    *)
(* with its HTTP entry points of proxy_server.py.                           *)
(*                                                                         *)
(* Time is the wall clock in whole seconds.  Python optionals are sets of   *)
(* at most one element ({} is None).  Provider objects live in a heap       *)
(* (provider) and the registry is a sequence of references into it.         *)
(***************************************************************************)
EXTENDS Integers, Sequences, FiniteSets, TLC

\* ---- bounds of the model ------------------------------------------------
NumProviders == 2
MaxDispatches == 2
MaxAttempts == 2
MaxElapsed == 60

\* ---- program constants --------------------------------------------------
DefaultCooldown == 60
MsPerSecond == 1000
SecondsPerDay == 86400
\* The last second a datetime can hold (31 Dec 9999), scaled to the model's
\* integers, and the first (1 Jan of year 1).
DatetimeMax == 2000000000
DatetimeMin == 0 - 2000000000
\* A delay that leads past DatetimeMax from any time of the model.
HugeDelay == DatetimeMax

CycleIds == {1}
\* The cycles of two inbound requests that are served concurrently.
ConcurrentIds == {1, 2}
ProviderIds == 1..NumProviders
StartNow == SecondsPerDay - 1
\* The priorities of the configured providers, in load order: ascending,
\* descending, or all equal.
PriorityLayouts ==
    {[i \in ProviderIds |-> i],
     [i \in ProviderIds |-> NumProviders + 1 - i],
     [i \in ProviderIds |-> 1]}
TickSteps == {DefaultCooldown}

\* ---- optionals ----------------------------------------------------------
None == {}
Some(x) == {x}
Val(o) == CHOOSE x \in o : TRUE

\* ---- HTTP responses and transport outcomes -------------------------------
\* A header is absent, present with a value int() rejects, or an integer.
AbsentHeader == [st |-> "absent", v |-> 0]
BadHeader == [st |-> "bad", v |-> 0]
IntHeader(n) == [st |-> "int", v |-> n]

MsHeaderValues == {AbsentHeader, BadHeader, IntHeader(2000), IntHeader(500), IntHeader(0 - 1500)}
SecHeaderValues == {AbsentHeader, BadHeader, IntHeader(2), IntHeader(HugeDelay)}
UsageValues == {None, Some(42)}
BodyKinds == {"json", "text"}

Response(status, body, usage, ms, sec) ==
    [kind |-> "response", status |-> status, body |-> body, usage |-> usage,
     retry_after_ms |-> ms, retry_after |-> sec]

Raised(k) ==
    [kind |-> k, status |-> 0, body |-> "none", usage |-> None,
     retry_after_ms |-> AbsentHeader, retry_after |-> AbsentHeader]

\* What the awaited client.post can deliver: a response, or an exception.
Outcomes ==
    {Raised(k) : k \in {"TimeoutException", "ConnectError", "Exception"}}
    \cup {Response(200, "json", u, AbsentHeader, AbsentHeader) : u \in UsageValues}
    \cup {Response(201, "json", Some(42), AbsentHeader, AbsentHeader)}
    \cup {Response(404, b, None, AbsentHeader, AbsentHeader) : b \in BodyKinds}
    \cup {Response(500, "json", None, AbsentHeader, AbsentHeader)}
    \cup {Response(429, "json", None, ms, sec) :
             ms \in MsHeaderValues, sec \in SecHeaderValues}

\* ---- parse_retry_after ---------------------------------------------------
\* Division that rounds toward zero.
TruncDiv(v, d) == IF v >= 0 THEN v \div d ELSE 0 - ((0 - v) \div d)

\* Mutant: the millisecond value is truncated toward zero.
parse_retry_after_Truncates(resp) ==
    IF resp.retry_after_ms.st = "int"
    THEN Some(TruncDiv(resp.retry_after_ms.v, MsPerSecond))
    ELSE IF resp.retry_after.st = "int"
         THEN Some(resp.retry_after.v)
         ELSE None

\* Mutant: the whole-seconds header is consulted first.
parse_retry_after_SecondsFirst(resp) ==
    IF resp.retry_after.st = "int"
    THEN Some(resp.retry_after.v)
    ELSE IF resp.retry_after_ms.st = "int"
         THEN Some(resp.retry_after_ms.v \div MsPerSecond)
         ELSE None

parse_retry_after(resp) ==
    IF resp.retry_after_ms.st = "int"
    THEN Some(resp.retry_after_ms.v \div MsPerSecond)
    ELSE IF resp.retry_after.st = "int"
         THEN Some(resp.retry_after.v)
         ELSE None

\* ---- Provider -------------------------------------------------------------
ModelName(i) == "model-" \o ToString(i)
EndpointOverrides == {"<no attribute>", "", "/override"}

\* A name is its letters and whether some of them are upper case; str.lower()
\* keeps the letters.  Configured names are capitalised.
ProviderName(i, caps) == [letters |-> i, caps |-> caps]
ConfigName(i) == ProviderName(i, TRUE)
lower(name) == [name EXCEPT !.caps = FALSE]

\* Provider(...) as load_providers_from_config constructs it.  The dataclass
\* declares no endpoint_override; the object has that attribute only when
\* somebody attaches it (attr).
ApiKey(i) == "key-" \o ToString(i)

NewProvider(i, prio, attr) ==
    [name |-> ConfigName(i), priority |-> prio, api_key |-> ApiKey(i),
     model |-> ModelName(i),
     endpoint_override |-> attr,
     is_rate_limited |-> FALSE, rate_limited_until |-> None,
     request_count |-> 0, last_reset |-> None,
     consecutive_errors |-> 0, last_error |-> "None",
     total_tokens_used |-> 0]

Today(t) == t \div SecondsPerDay

\* Mutant: the counter is written from a stale read.
increment_request_count_StaleRead(p, t) ==
    [p EXCEPT !.request_count = 1, !.last_reset = Some(Today(t))]

\* Mutant: the counter is never reset when the date changes.
increment_request_count_NoReset(p, t) ==
    [p EXCEPT !.request_count = @ + 1, !.last_reset = Some(Today(t))]

increment_request_count(p, t) ==
    LET q == IF p.last_reset # Some(Today(t))
             THEN [p EXCEPT !.request_count = 0, !.last_reset = Some(Today(t))]
             ELSE p
    IN [q EXCEPT !.request_count = @ + 1]

\* datetime.now() + timedelta(seconds=...) raises OverflowError when the sum
\* is not a date a datetime can hold.
mark_rate_limited_raises(retry_after_seconds, t) ==
    /\ retry_after_seconds # None
    /\ Val(retry_after_seconds) # 0
    /\ \/ t + Val(retry_after_seconds) > DatetimeMax
       \/ t + Val(retry_after_seconds) < DatetimeMin

\* The object after mark_rate_limited returned or raised: the flag is set
\* first, and rate_limited_until is assigned only when the sum was computed.
mark_rate_limited(p, retry_after_seconds, t) ==
    IF mark_rate_limited_raises(retry_after_seconds, t)
    THEN [p EXCEPT !.is_rate_limited = TRUE]
    ELSE IF retry_after_seconds # None /\ Val(retry_after_seconds) # 0
         THEN [p EXCEPT !.is_rate_limited = TRUE,
                        !.rate_limited_until = Some(t + Val(retry_after_seconds))]
         ELSE [p EXCEPT !.is_rate_limited = TRUE,
                        !.rate_limited_until = Some(t + DefaultCooldown)]

CooldownPassed(p, t) ==
    p.rate_limited_until # None /\ t >= Val(p.rate_limited_until)

\* check_if_available: ret is the value returned, self the object afterwards.
check_if_available(p, t) ==
    IF ~p.is_rate_limited
    THEN [ret |-> TRUE, self |-> p]
    ELSE IF CooldownPassed(p, t)
         THEN [ret |-> TRUE,
               self |-> [p EXCEPT !.is_rate_limited = FALSE,
                                  !.rate_limited_until = None,
                                  !.consecutive_errors = 0]]
         ELSE [ret |-> FALSE, self |-> p]

\* Mutant: a success puts the provider back into rotation.
mark_success_ClearsRateLimit(p) ==
    [p EXCEPT !.consecutive_errors = 0, !.last_error = "None",
              !.is_rate_limited = FALSE, !.rate_limited_until = None]

\* Mutant: a success resets the counter but keeps the last error.
mark_success_KeepsLastError(p) ==
    [p EXCEPT !.consecutive_errors = 0]

mark_success(p) ==
    [p EXCEPT !.consecutive_errors = 0, !.last_error = "None"]

\* Mutant: an error also takes the provider out of rotation.
mark_error_RateLimits(p, error_message) ==
    [p EXCEPT !.consecutive_errors = @ + 1, !.last_error = error_message,
              !.is_rate_limited = TRUE]

mark_error(p, error_message) ==
    [p EXCEPT !.consecutive_errors = @ + 1, !.last_error = error_message]

\* ---- ProviderRegistry -----------------------------------------------------
\* Mutant: a provider is placed before the providers of equal priority.
RECURSIVE InsertByPriority_Unstable(_, _, _)
InsertByPriority_Unstable(heap, sorted, id) ==
    IF sorted = << >> THEN << id >>
    ELSE IF heap[Head(sorted)].priority < heap[id].priority
         THEN << Head(sorted) >> \o InsertByPriority_Unstable(heap, Tail(sorted), id)
         ELSE << id >> \o sorted

RECURSIVE InsertByPriority(_, _, _)
InsertByPriority(heap, sorted, id) ==
    IF sorted = << >> THEN << id >>
    ELSE IF heap[Head(sorted)].priority <= heap[id].priority
         THEN << Head(sorted) >> \o InsertByPriority(heap, Tail(sorted), id)
         ELSE << id >> \o sorted

\* Mutant: the registry keeps the load order.
SortedByPriority_LoadOrder(heap, ids) == ids

\* sorted(providers, key=priority): stable, ascending.
RECURSIVE SortedByPriority(_, _)
SortedByPriority(heap, ids) ==
    IF ids = << >> THEN << >>
    ELSE InsertByPriority(heap, SortedByPriority(heap, SubSeq(ids, 1, Len(ids) - 1)),
                          ids[Len(ids)])

\* Mutant: the availability filter is missing.
get_available_providers_Unfiltered(heap, reg, t) ==
    [ret  |-> reg, heap |-> heap]

\* get_available_providers: the list returned (ret) and the heap afterwards.
get_available_providers(heap, reg, t) ==
    [ret  |-> SelectSeq(reg, LAMBDA id : check_if_available(heap[id], t).ret),
     heap |-> [id \in DOMAIN heap |->
                  IF \E k \in 1..Len(reg) : reg[k] = id
                  THEN check_if_available(heap[id], t).self
                  ELSE heap[id]]]

\* Mutant: the credential is part of a provider's status entry.
to_dict_WithKey(p) ==
    [name |-> p.name, priority |-> p.priority, api_key |-> p.api_key,
     model |-> p.model,
     is_rate_limited |-> p.is_rate_limited,
     rate_limited_until |-> p.rate_limited_until,
     request_count |-> p.request_count, last_reset |-> p.last_reset,
     consecutive_errors |-> p.consecutive_errors, last_error |-> p.last_error,
     total_tokens_used |-> p.total_tokens_used]

\* Mutant: the lookup compares the names as they are written.
get_provider_by_name_CaseSensitive(heap, reg, name) ==
    LET hits == {k \in 1..Len(reg) : heap[reg[k]].name = name}
    IN IF hits = {} THEN None
       ELSE Some(reg[CHOOSE k \in hits : \A j \in hits : k <= j])

\* get_provider_by_name: the first provider whose name matches ignoring case.
get_provider_by_name(heap, reg, name) ==
    LET hits == {k \in 1..Len(reg) : lower(heap[reg[k]].name) = lower(name)}
    IN IF hits = {} THEN None
       ELSE Some(reg[CHOOSE k \in hits : \A j \in hits : k <= j])

to_dict(p) ==
    [name |-> p.name, priority |-> p.priority, model |-> p.model,
     is_rate_limited |-> p.is_rate_limited,
     rate_limited_until |-> p.rate_limited_until,
     request_count |-> p.request_count, last_reset |-> p.last_reset,
     consecutive_errors |-> p.consecutive_errors, last_error |-> p.last_error,
     total_tokens_used |-> p.total_tokens_used]

\* get_all_stats: the dict returned (the listing is built before the
\* availability check runs) and the heap afterwards.
get_all_stats(heap, reg, t) ==
    [providers |-> [k \in 1..Len(reg) |-> to_dict(heap[reg[k]])],
     total_providers |-> Len(reg),
     available_providers |-> Len(get_available_providers(heap, reg, t).ret),
     heap |-> get_available_providers(heap, reg, t).heap]

\* ---- state ----------------------------------------------------------------
\* loads lists, per configuration load (the startup load first), the objects
\* load_providers_from_config constructed; obs is
\* what the last direct caller of a Provider method, of parse_retry_after or
\* of a registry reader passed in and got back.
VARIABLES now, provider, registry, cyc, started, attempts, t0, loads, obs

vars == << now, provider, registry, cyc, started, attempts, t0, loads, obs >>

\* The inbound requests the model draws from: endpoint, json_data["model"]
\* and json_data.get("stream", False).
Request(e, m, s) == [endpoint |-> e, model |-> m, stream |-> s]
Requests ==
    {Request("/v1/chat/completions", "<absent>", FALSE),
     Request("/v1/chat/completions", "caller-model", TRUE),
     Request("/v1/completions", "default", FALSE)}

NoRequest == [url_endpoint |-> "none", authorization |-> "none", model |-> "none"]
NoHttp == [status |-> 0, kind |-> "none", body_of |-> None,
           x_provider |-> None, x_model |-> "none"]

\* Before anybody called anything directly.  n counts the direct calls; id,
\* arg, msg, ms and sec are the arguments, at the time of the call, before the
\* object as the call found it, ret, ok, found, listing, total and available
\* what came back (listed: the objects behind the listing; raised: the call
\* ended in an exception).
NoCall ==
    [op |-> "none", n |-> 0, id |-> 0, at |-> 0,
     arg |-> None, msg |-> "none", ms |-> AbsentHeader, sec |-> AbsentHeader,
     before |-> NewProvider(0, 0, "<no attribute>"),
     ret |-> None, ok |-> FALSE, raised |-> FALSE, found |-> None,
     listing |-> << >>, listed |-> << >>, total |-> 0, available |-> 0]

\* inbound_model is json_data["model"] as the request arrived,
\* started_with the registry's list when the cycle read it, serial the
\* number of the inbound request among those served so far, and delivered
\* the chunks of a StreamingResponse body handed to the caller so far.
IdleCycle ==
    [pc |-> "idle", endpoint |-> "/v1/chat/completions", stream |-> FALSE,
     json_model |-> "<absent>", available_providers |-> << >>, idx |-> 1,
     sent |-> NoRequest, inbound_model |-> "<absent>", started_with |-> << >>,
     serial |-> 0, delivered |-> 0,
     ret_response |-> None, ret_provider |-> None, http |-> NoHttp,
     log |-> << >>, pre |-> << >>]

\* ---- make_request_to_provider, up to the awaited client.post --------------
\* raises: the attribute lookup of line 78 failed (AttributeError);
\* otherwise the request that goes out and json_data afterwards.
make_request_to_provider(p, endpoint, json_model) ==
    IF p.endpoint_override = "<no attribute>"
    THEN [raises |-> TRUE, json_model |-> json_model, request |-> NoRequest]
    ELSE LET final_endpoint == IF p.endpoint_override # ""
                               THEN p.endpoint_override ELSE endpoint
             model == IF json_model \in {"<absent>", "default"}
                      THEN p.model ELSE json_model
         IN [raises |-> FALSE, json_model |-> model,
             request |-> [url_endpoint |-> final_endpoint,
                          authorization |-> "Bearer " \o p.api_key,
                          model |-> model]]

\* Mutant: the handler does not test for a missing response and the failure
\* surfaces as an internal error.
Respond_NoUnavailableCheck(cy, response, id, heap) ==
    IF response = None
    THEN [status |-> 500, kind |-> "unhandled exception", body_of |-> None,
          x_provider |-> None, x_model |-> "none"]
    ELSE [status |-> IF cy.stream THEN 200 ELSE Val(response).status,
          kind |-> IF cy.stream THEN "StreamingResponse" ELSE "JSONResponse",
          body_of |-> id, x_provider |-> id, x_model |-> heap[Val(id)].model]

\* ---- chat_completions / completions: what the caller gets ------------------
Respond(cy, response, id, heap) ==
    IF response = None
    THEN [status |-> 503, kind |-> "HTTPException", body_of |-> None,
          x_provider |-> None, x_model |-> "none"]
    ELSE LET x_model == IF cy.endpoint = "/v1/chat/completions"
                        THEN heap[Val(id)].model ELSE "none"
         IN IF cy.stream
            THEN [status |-> 200, kind |-> "StreamingResponse", body_of |-> id,
                  x_provider |-> id, x_model |-> x_model]
            ELSE IF Val(response).body = "json"
                 THEN [status |-> Val(response).status, kind |-> "JSONResponse",
                       body_of |-> id, x_provider |-> id, x_model |-> x_model]
                 ELSE [status |-> 500, kind |-> "unhandled exception",
                       body_of |-> None, x_provider |-> None, x_model |-> "none"]

\* return (response, provider) of try_providers_in_order, and the handler's
\* reply built from it in the same step.
Return(cy, response, id, heap) ==
    [cy EXCEPT !.pc = "done", !.sent = NoRequest,
               !.ret_response = response, !.ret_provider = id,
               !.http = Respond(cy, response, id, heap)]

\* What the cycle remembers of an attempt: the candidate, what the call
\* delivered, for a 429 the delay parse_retry_after reported, and the
\* usage.total_tokens figure of a JSON body.
LogEntry(id, o) ==
    [prov |-> id, kind |-> o.kind, status |-> o.status,
     retry |-> IF o.kind = "response" /\ o.status = 429
               THEN parse_retry_after(o) ELSE None,
     usage |-> IF o.kind = "response" /\ o.body = "json" THEN o.usage ELSE None]

\* ---- try_providers_in_order: the candidate loop ----------------------------
\* Mutant: an attempt is counted only once its request has gone out.
RECURSIVE RunLoop_CountsSentOnly(_, _, _)
RunLoop_CountsSentOnly(heap, cy, t) ==
    IF cy.idx > Len(cy.available_providers)
    THEN [heap |-> heap, cy |-> Return(cy, None, None, heap)]
    ELSE LET id == cy.available_providers[cy.idx]
             rq == make_request_to_provider(heap[id], cy.endpoint, cy.json_model)
             h1 == [heap EXCEPT ![id] = increment_request_count(@, t)]
         IN IF rq.raises
            THEN RunLoop_CountsSentOnly(
                     [heap EXCEPT ![id] = mark_error(@, "Unexpected error")],
                     [cy EXCEPT !.idx = @ + 1,
                                !.log = Append(@, LogEntry(id, Raised("Exception")))],
                     t)
            ELSE [heap |-> h1,
                  cy |-> [cy EXCEPT !.pc = "await", !.json_model = rq.json_model,
                                    !.sent = rq.request]]

\* Mutant: an exception of an attempt ends the dispatch at once, unrecorded.
RunLoop_ExceptionEscapes(heap, cy, t) ==
    IF cy.idx > Len(cy.available_providers)
    THEN [heap |-> heap, cy |-> Return(cy, None, None, heap)]
    ELSE LET id == cy.available_providers[cy.idx]
             h1 == [heap EXCEPT ![id] = increment_request_count(@, t)]
             rq == make_request_to_provider(h1[id], cy.endpoint, cy.json_model)
         IN IF rq.raises
            THEN [heap |-> h1,
                  cy |-> Return([cy EXCEPT !.log = Append(@, LogEntry(id, Raised("Exception")))],
                                None, None, h1)]
            ELSE [heap |-> h1,
                  cy |-> [cy EXCEPT !.pc = "await", !.json_model = rq.json_model,
                                    !.sent = rq.request]]

\* From the top of the for loop at candidate cy.idx up to the next suspension
\* (the awaited call) or the return.
RECURSIVE RunLoop(_, _, _)
RunLoop(heap, cy, t) ==
    IF cy.idx > Len(cy.available_providers)
    THEN [heap |-> heap, cy |-> Return(cy, None, None, heap)]
    ELSE LET id == cy.available_providers[cy.idx]
             h1 == [heap EXCEPT ![id] = increment_request_count(@, t)]
             rq == make_request_to_provider(h1[id], cy.endpoint, cy.json_model)
         IN IF rq.raises
            THEN RunLoop([h1 EXCEPT ![id] = mark_error(@, "Unexpected error")],
                         [cy EXCEPT !.idx = @ + 1,
                                    !.log = Append(@, LogEntry(id, Raised("Exception")))],
                         t)
            ELSE [heap |-> h1,
                  cy |-> [cy EXCEPT !.pc = "await", !.json_model = rq.json_model,
                                    !.sent = rq.request]]

ErrorMessage(o) ==
    CASE o.kind = "response" -> "HTTP " \o ToString(o.status)
      [] o.kind = "TimeoutException" -> "Timeout"
      [] o.kind = "ConnectError" -> "Connection error"
      [] OTHER -> "Unexpected error"

\* Lines 130-131 inside the try block: an OverflowError of mark_rate_limited
\* lands in the last except clause, which records it with mark_error.
RateLimited(p, retry_after, t) ==
    IF mark_rate_limited_raises(retry_after, t)
    THEN mark_error(mark_rate_limited(p, retry_after, t), "Unexpected error")
    ELSE mark_rate_limited(p, retry_after, t)

\* Mutant: a non-retryable 4xx is retried on the next candidate.
Classify_ClientErrorContinues(p, o, t) ==
    IF o.kind = "response"
    THEN IF o.status = 429
         THEN [self |-> RateLimited(p, parse_retry_after(o), t), returns |-> FALSE]
         ELSE IF o.status >= 400
              THEN [self |-> mark_error(p, ErrorMessage(o)),
                    returns |-> FALSE]
              ELSE LET q == mark_success(p)
                   IN [self |-> IF o.status = 200 /\ o.body = "json" /\ o.usage # None
                                THEN [q EXCEPT !.total_tokens_used = @ + Val(o.usage)]
                                ELSE q,
                       returns |-> TRUE]
    ELSE [self |-> mark_error(p, ErrorMessage(o)), returns |-> FALSE]

\* Mutant: a 5xx is returned to the caller like a 4xx.
Classify_ServerErrorReturns(p, o, t) ==
    IF o.kind = "response"
    THEN IF o.status = 429
         THEN [self |-> RateLimited(p, parse_retry_after(o), t), returns |-> FALSE]
         ELSE IF o.status >= 400
              THEN [self |-> mark_error(p, ErrorMessage(o)),
                    returns |-> TRUE]
              ELSE LET q == mark_success(p)
                   IN [self |-> IF o.status = 200 /\ o.body = "json" /\ o.usage # None
                                THEN [q EXCEPT !.total_tokens_used = @ + Val(o.usage)]
                                ELSE q,
                       returns |-> TRUE]
    ELSE [self |-> mark_error(p, ErrorMessage(o)), returns |-> FALSE]

\* Mutant: a timeout is skipped without being recorded.
Classify_TimeoutNotRecorded(p, o, t) ==
    IF o.kind = "response"
    THEN IF o.status = 429
         THEN [self |-> RateLimited(p, parse_retry_after(o), t), returns |-> FALSE]
         ELSE IF o.status >= 400
              THEN [self |-> mark_error(p, ErrorMessage(o)),
                    returns |-> ~(o.status >= 500)]
              ELSE LET q == mark_success(p)
                   IN [self |-> IF o.status = 200 /\ o.body = "json" /\ o.usage # None
                                THEN [q EXCEPT !.total_tokens_used = @ + Val(o.usage)]
                                ELSE q,
                       returns |-> TRUE]
    ELSE IF o.kind = "TimeoutException"
         THEN [self |-> p, returns |-> FALSE]
         ELSE [self |-> mark_error(p, ErrorMessage(o)), returns |-> FALSE]

\* The body of the try block after the awaited call delivered o:
\* the provider object afterwards and whether the loop returns.
Classify(p, o, t) ==
    IF o.kind = "response"
    THEN IF o.status = 429
         THEN [self |-> RateLimited(p, parse_retry_after(o), t), returns |-> FALSE]
         ELSE IF o.status >= 400
              THEN [self |-> mark_error(p, ErrorMessage(o)),
                    returns |-> ~(o.status >= 500)]
              ELSE LET q == mark_success(p)
                   IN [self |-> IF o.status = 200 /\ o.body = "json" /\ o.usage # None
                                THEN [q EXCEPT !.total_tokens_used = @ + Val(o.usage)]
                                ELSE q,
                       returns |-> TRUE]
    ELSE [self |-> mark_error(p, ErrorMessage(o)), returns |-> FALSE]

\* ---- actions -----------------------------------------------------------------
\* Mutant: json_data is one dict shared by the requests in flight.
Start_SharedPayload(c, rq) ==
    /\ cyc[c].pc \in {"idle", "done"}
    /\ started < MaxDispatches
    /\ LET av == get_available_providers(provider, registry, now)
           shared == IF \E d \in DOMAIN cyc : d # c /\ cyc[d].pc = "await"
                     THEN cyc[CHOOSE d \in DOMAIN cyc :
                                 d # c /\ cyc[d].pc = "await"].json_model
                     ELSE rq.model
           cy == [IdleCycle EXCEPT !.endpoint = rq.endpoint, !.stream = rq.stream,
                                   !.json_model = shared,
                                   !.inbound_model = rq.model,
                                   !.serial = started + 1,
                                   !.started_with = registry,
                                   !.available_providers = av.ret,
                                   !.pre = av.heap]
           r == IF av.ret = << >>
                THEN [heap |-> av.heap, cy |-> Return(cy, None, None, av.heap)]
                ELSE RunLoop(av.heap, cy, now)
       IN /\ provider' = r.heap
          /\ cyc' = [cyc EXCEPT ![c] = r.cy]
    /\ started' = started + 1
    /\ UNCHANGED << now, registry, attempts, t0, loads, obs >>

\* An inbound POST: try_providers_in_order starts.
Start(c, rq) ==
    /\ cyc[c].pc \in {"idle", "done"}
    /\ started < MaxDispatches
    /\ LET av == get_available_providers(provider, registry, now)
           cy == [IdleCycle EXCEPT !.endpoint = rq.endpoint, !.stream = rq.stream,
                                   !.json_model = rq.model,
                                   !.inbound_model = rq.model,
                                   !.serial = started + 1,
                                   !.started_with = registry,
                                   !.available_providers = av.ret,
                                   !.pre = av.heap]
           r == IF av.ret = << >>
                THEN [heap |-> av.heap, cy |-> Return(cy, None, None, av.heap)]
                ELSE RunLoop(av.heap, cy, now)
       IN /\ provider' = r.heap
          /\ cyc' = [cyc EXCEPT ![c] = r.cy]
    /\ started' = started + 1
    /\ UNCHANGED << now, registry, attempts, t0, loads, obs >>

\* Mutant: after a retryable failure the same candidate is tried again.
Receive_RetriesSameCandidate(c, o) ==
    /\ cyc[c].pc = "await"
    /\ attempts < MaxAttempts
    /\ attempts' = attempts + 1
    /\ LET cy == cyc[c]
           id == cy.available_providers[cy.idx]
           cl == Classify(provider[id], o, now)
           h1 == [provider EXCEPT ![id] = cl.self]
           cy1 == [cy EXCEPT !.log = Append(@, LogEntry(id, o))]
           r == IF cl.returns
                THEN [heap |-> h1,
                      cy |-> Return(cy1, Some([status |-> o.status, body |-> o.body]),
                                    Some(id), h1)]
                ELSE RunLoop(h1, [cy1 EXCEPT !.sent = NoRequest], now)
       IN /\ provider' = r.heap
          /\ cyc' = [cyc EXCEPT ![c] = r.cy]
    /\ UNCHANGED << now, registry, started, t0, loads, obs >>

\* The awaited call to the candidate in flight completes with outcome o: the
\* outcome is classified and the loop runs on to the next await or the return.
Completes(c, o) ==
    /\ cyc[c].pc = "await"
    /\ LET cy == cyc[c]
           id == cy.available_providers[cy.idx]
           cl == Classify(provider[id], o, now)
           h1 == [provider EXCEPT ![id] = cl.self]
           cy1 == [cy EXCEPT !.log = Append(@, LogEntry(id, o))]
           r == IF cl.returns
                THEN [heap |-> h1,
                      cy |-> Return(cy1, Some([status |-> o.status, body |-> o.body]),
                                    Some(id), h1)]
                ELSE RunLoop(h1, [cy1 EXCEPT !.idx = @ + 1, !.sent = NoRequest], now)
       IN /\ provider' = r.heap
          /\ cyc' = [cyc EXCEPT ![c] = r.cy]
    /\ UNCHANGED << now, registry, started, t0, loads, obs >>

\* The same, counted against the bound on the answers of a run.
Receive(c, o) ==
    /\ attempts < MaxAttempts
    /\ attempts' = attempts + 1
    /\ Completes(c, o)

\* GET /status and /stats: get_all_stats evaluates get_available_providers.
GetStatus ==
    /\ provider' = get_available_providers(provider, registry, now).heap
    /\ provider' # provider
    /\ UNCHANGED << now, registry, cyc, started, attempts, t0, loads, obs >>

\* The wall clock advances.
Tick(d) ==
    /\ now + d <= t0 + MaxElapsed
    /\ now' = now + d
    /\ UNCHANGED << provider, registry, cyc, started, attempts, t0, loads, obs >>

Init ==
    /\ t0 = StartNow
    /\ now = t0
    /\ \E prio \in PriorityLayouts :
       \E attr \in EndpointOverrides :
          provider = [i \in ProviderIds |-> NewProvider(i, prio[i], attr)]
    /\ registry = SortedByPriority(provider, [i \in ProviderIds |-> i])
    /\ cyc = [c \in ConcurrentIds |-> IdleCycle]
    /\ started = 0
    /\ attempts = 0
    /\ loads = << ProviderIds >>
    /\ obs = NoCall

Next ==
    \/ \E c \in CycleIds, rq \in Requests : Start(c, rq)
    \/ \E c \in CycleIds, o \in Outcomes : Receive(c, o)
    \/ GetStatus
    \/ \E d \in TickSteps : Tick(d)

Spec == Init /\ [][Next]_vars

\* Dispatches in isolation: while a cycle waits for an upstream answer the
\* clock stands still and nobody reads the status.
NoneAwaiting == \A c \in CycleIds : cyc[c].pc # "await"

IsolatedNext ==
    \/ \E c \in CycleIds, rq \in Requests : Start(c, rq)
    \/ \E c \in CycleIds, o \in Outcomes : Receive(c, o)
    \/ NoneAwaiting /\ GetStatus
    \/ NoneAwaiting /\ \E d \in TickSteps : Tick(d)

SpecIsolated == Init /\ [][IsolatedNext]_vars

\* ---- vocabulary of the properties -------------------------------------------
IsSuccess(e) == e.kind = "response" /\ e.status >= 200 /\ e.status <= 399
IsRateLimit(e) == e.kind = "response" /\ e.status = 429
IsClientError(e) ==
    e.kind = "response" /\ e.status >= 400 /\ e.status <= 499 /\ e.status # 429
IsServerError(e) == e.kind = "response" /\ e.status >= 500 /\ e.status <= 599
IsTransportFailure(e) == e.kind # "response"
IsRetryable(e) == IsRateLimit(e) \/ IsServerError(e) \/ IsTransportFailure(e)

\* A step in which the awaited call of cycle c's candidate completed.
Answered(c) == cyc[c].pc = "await" /\ Len(cyc'[c].log) > Len(cyc[c].log)
\* The candidate that was in flight, and what its call delivered.
Candidate(c) == cyc[c].available_providers[cyc[c].idx]
Answer(c) == cyc'[c].log[Len(cyc[c].log) + 1]
\* The loop went on to the next candidate / returned Unavailable after it.
Continued(c) ==
    /\ cyc'[c].idx > cyc[c].idx
    /\ cyc'[c].ret_provider # Some(Candidate(c))
\* The cycle returned the candidate's response.
ReturnedCandidate(c) ==
    /\ cyc'[c].pc = "done"
    /\ cyc'[c].ret_provider = Some(Candidate(c))
    /\ cyc'[c].ret_response # None
    /\ Val(cyc'[c].ret_response).status = Answer(c).status
    /\ Len(cyc'[c].log) = Len(cyc[c].log) + 1
    /\ cyc'[c].idx = cyc[c].idx
\* Candidates behind position k of cycle cy were not attempted by the cycle.
LaterUntouched(cy, k, heap) ==
    \A j \in (k + 1)..Len(cy.available_providers) :
        heap[cy.available_providers[j]].request_count
            = cy.pre[cy.available_providers[j]].request_count

\* C1: a dispatch cycle attempts the providers available at its start in
\* ascending priority order (the registry's order), each at most once; the
\* response it returns comes from the first candidate that ended in a success
\* or a non-retryable client error, and every candidate before it was
\* attempted and ended in a retryable failure.
C1_OrderedFirstResponder ==
    \A c \in CycleIds :
        LET cy == cyc[c] IN
        cy.pc # "idle" =>
            /\ cy.available_providers
                  = SelectSeq(registry, LAMBDA id : ~cy.pre[id].is_rate_limited)
            /\ Len(cy.log) <= Len(cy.available_providers)
            /\ \A k \in 1..Len(cy.log) : cy.log[k].prov = cy.available_providers[k]
            /\ \A i, j \in 1..Len(cy.log) :
                  i < j => /\ cy.log[i].prov # cy.log[j].prov
                           /\ provider[cy.log[i].prov].priority
                                 <= provider[cy.log[j].prov].priority
            /\ \A k \in 1..(Len(cy.log) - 1) : IsRetryable(cy.log[k])
            /\ (cy.pc = "done" /\ cy.ret_provider # None) =>
                  /\ Len(cy.log) >= 1
                  /\ cy.ret_provider = Some(cy.log[Len(cy.log)].prov)
                  /\ \/ IsSuccess(cy.log[Len(cy.log)])
                     \/ IsClientError(cy.log[Len(cy.log)])
                  /\ Val(cy.ret_response).status = cy.log[Len(cy.log)].status

\* C1 witness: the second candidate answered after the first failed
\* retryably, in a registry whose order differs from the load order.
C1_Witness ==
    \E c \in CycleIds :
        /\ cyc[c].pc = "done"
        /\ cyc[c].ret_provider # None
        /\ Len(cyc[c].log) = 2
        /\ registry[1] # 1
        /\ provider[cyc[c].log[1].prov].priority < provider[cyc[c].log[2].prov].priority


\* C2: when a candidate answers 429 the dispatcher marks it rate-limited
\* with a cooldown expiry computed from the reported delay (the default when
\* none is reported), leaves its consecutive_errors as it was, and goes on
\* to the next candidate: the 429 is not returned.
C2_RateLimitAdvances ==
    [][\A c \in CycleIds :
          (Answered(c) /\ IsRateLimit(Answer(c))) =>
              LET id == Candidate(c)
                  retry == Answer(c).retry
              IN /\ provider'[id].is_rate_limited
                 /\ provider'[id].rate_limited_until # None
                 /\ (retry # None /\ Val(retry) # 0) =>
                        provider'[id].rate_limited_until = Some(now + Val(retry))
                 /\ retry = None =>
                        provider'[id].rate_limited_until = Some(now + DefaultCooldown)
                 /\ provider'[id].consecutive_errors = provider[id].consecutive_errors
                 /\ provider'[id].last_error = provider[id].last_error
                 /\ Continued(c)
                 /\ cyc'[c].ret_response # None =>
                        Val(cyc'[c].ret_response).status # 429
                 /\ cyc'[c].http.status # 429]_vars

\* C3: when a candidate answers 400-499 other than 429 the dispatcher records
\* an error on it and returns that response at once; no later candidate is
\* attempted, so the request_count of every later candidate is the one it had
\* when the cycle started.
C3_ClientErrorReturns ==
    [][\A c \in CycleIds :
          (Answered(c) /\ IsClientError(Answer(c))) =>
              LET id == Candidate(c)
              IN /\ provider'[id].consecutive_errors = provider[id].consecutive_errors + 1
                 /\ provider'[id].last_error # "None"
                 /\ ReturnedCandidate(c)
                 /\ LaterUntouched(cyc'[c], cyc[c].idx, provider')]_vars

\* C3 witness: the first of several candidates answered 404, the cycle
\* returned it, and the next candidate has recorded no request.
C3_Witness ==
    \E c \in CycleIds :
        /\ cyc[c].pc = "done"
        /\ Len(cyc[c].log) = 1
        /\ cyc[c].log[1].status = 404
        /\ cyc[c].ret_provider = Some(cyc[c].log[1].prov)
        /\ Len(cyc[c].available_providers) >= 2
        /\ provider[cyc[c].available_providers[2]].request_count = 0
        /\ provider[cyc[c].log[1].prov].consecutive_errors = 1

\* C4: when a candidate answers 500-599 the dispatcher records an error on it
\* (consecutive_errors + 1, last_error set) and goes on to the next candidate;
\* a 5xx response is never what the cycle returns.
C4_ServerErrorAdvances ==
    [][\A c \in CycleIds :
          /\ (Answered(c) /\ IsServerError(Answer(c))) =>
                LET id == Candidate(c)
                IN /\ provider'[id].consecutive_errors
                        = provider[id].consecutive_errors + 1
                   /\ provider'[id].last_error # "None"
                   /\ ~provider'[id].is_rate_limited
                   /\ Continued(c)
          /\ cyc'[c].ret_response # None =>
                Val(cyc'[c].ret_response).status < 500]_vars

\* C4 witness: a candidate answered 500, has one error recorded, and the
\* cycle ended with another candidate's response.
C4_Witness ==
    \E c \in CycleIds :
        /\ cyc[c].pc = "done"
        /\ Len(cyc[c].log) >= 2
        /\ cyc[c].log[1].status = 500
        /\ provider[cyc[c].log[1].prov].consecutive_errors = 1
        /\ provider[cyc[c].log[1].prov].last_error = "HTTP 500"
        /\ cyc[c].ret_provider = Some(cyc[c].log[2].prov)

\* C5: when the outbound call times out or fails to connect the dispatcher
\* records an error on the candidate and goes on to the next one; the two
\* cases are handled alike: the same bookkeeping apart from the message, the
\* same continuation.
C5_TransportFailureAdvances ==
    [][\A c \in CycleIds :
          (Answered(c) /\ Answer(c).kind \in {"TimeoutException", "ConnectError"}) =>
              LET id == Candidate(c)
              IN /\ \E msg \in {"Timeout", "Connection error"} :
                        provider'[id] = [provider[id] EXCEPT
                                            !.consecutive_errors = @ + 1,
                                            !.last_error = msg]
                 /\ Continued(c)]_vars

\* C5 witness: one candidate timed out and another failed to connect in the
\* same cycle, each has one error recorded and the loop went past both.
C5_Witness ==
    \E c \in CycleIds :
        /\ Len(cyc[c].log) >= 2
        /\ cyc[c].log[1].kind = "TimeoutException"
        /\ cyc[c].log[2].kind = "ConnectError"
        /\ provider[cyc[c].log[1].prov].consecutive_errors = 1
        /\ provider[cyc[c].log[2].prov].consecutive_errors = 1
        /\ cyc[c].idx = 3

\* C6: when a candidate answers 200-399 the cycle returns Success attributed
\* to it, its consecutive_errors is 0 and its last_error is cleared, no
\* further candidate is attempted, and at most one provider records a success
\* in a cycle.
C6_SuccessReturns ==
    [][\A c \in CycleIds :
          /\ (Answered(c) /\ IsSuccess(Answer(c))) =>
                LET id == Candidate(c)
                IN /\ provider'[id].consecutive_errors = 0
                   /\ provider'[id].last_error = "None"
                   /\ ReturnedCandidate(c)
                   /\ LaterUntouched(cyc'[c], cyc[c].idx, provider')
          /\ Cardinality({k \in 1..Len(cyc'[c].log) : IsSuccess(cyc'[c].log[k])}) <= 1]_vars

\* C6 witness: a provider that had an error recorded by an earlier cycle
\* answered 200 ahead of another candidate; it is the responder, its error
\* state is cleared and the other candidate was not attempted.
C6_Witness ==
    \E c \in CycleIds :
        /\ cyc[c].pc = "done"
        /\ started = 2
        /\ Len(cyc[c].log) = 1
        /\ cyc[c].log[1].status = 200
        /\ cyc[c].pre[cyc[c].log[1].prov].consecutive_errors = 1
        /\ provider[cyc[c].log[1].prov].consecutive_errors = 0
        /\ provider[cyc[c].log[1].prov].last_error = "None"
        /\ cyc[c].ret_provider = Some(cyc[c].log[1].prov)
        /\ Len(cyc[c].available_providers) >= 2

\* Every provider of the registry is inside a cooldown at time t.
AllInCooldown(heap, reg, t) ==
    \A k \in 1..Len(reg) :
        /\ heap[reg[k]].is_rate_limited
        /\ heap[reg[k]].rate_limited_until # None
        /\ t < Val(heap[reg[k]].rate_limited_until)

\* C7: a dispatch that starts when every provider is inside a cooldown returns
\* Unavailable without any outbound call and without changing any provider's
\* request_count.
C7_NoneAvailable ==
    [][\A c \in CycleIds :
          (started' = started + 1 /\ AllInCooldown(provider, registry, now)) =>
              /\ cyc'[c].pc = "done"
              /\ cyc'[c].available_providers = << >>
              /\ cyc'[c].ret_response = None
              /\ cyc'[c].ret_provider = None
              /\ cyc'[c].log = << >>
              /\ cyc'[c].sent = NoRequest
              /\ cyc'[c].http.status = 503
              /\ \A id \in DOMAIN provider :
                    provider'[id].request_count = provider[id].request_count]_vars

\* C7 witness: the second dispatch found all providers rate-limited by the
\* first and ended Unavailable with nothing attempted.
C7_Witness ==
    \E c \in CycleIds :
        /\ started = 2
        /\ cyc[c].pc = "done"
        /\ cyc[c].log = << >>
        /\ cyc[c].http.status = 503
        /\ AllInCooldown(provider, registry, now)
        /\ \A id \in DOMAIN provider : provider[id].request_count = 1

\* C8: a finished dispatch is Unavailable (503 to the caller) exactly when its
\* candidate list was empty or every candidate ended in a retryable failure;
\* then nothing of an upstream response reaches the caller.
C8_UnavailableIffExhausted ==
    \A c \in CycleIds :
        LET cy == cyc[c]
            exhausted == /\ Len(cy.log) = Len(cy.available_providers)
                         /\ \A k \in 1..Len(cy.log) : IsRetryable(cy.log[k])
        IN cy.pc = "done" =>
              /\ (cy.ret_response = None) <=> exhausted
              /\ (cy.ret_response = None) <=> (cy.ret_provider = None)
              /\ (cy.http.status = 503) <=> exhausted
              /\ exhausted => /\ cy.http.body_of = None
                              /\ cy.http.x_provider = None
                              /\ cy.http.kind = "HTTPException"

\* C8 witness: all candidates, more than one, failed retryably in different
\* ways and the caller got 503.
C8_Witness ==
    \E c \in CycleIds :
        /\ cyc[c].pc = "done"
        /\ Len(cyc[c].log) = Len(cyc[c].available_providers)
        /\ Len(cyc[c].log) >= 2
        /\ cyc[c].log[1].status = 429
        /\ cyc[c].log[2].kind = "TimeoutException"
        /\ cyc[c].ret_response = None
        /\ cyc[c].http.status = 503

\* C9: in a dispatch where the earlier candidates answer 429 or 5xx and a
\* later one answers 2xx, the result is Success attributed to the 2xx
\* provider, every candidate that answered 429 is left unavailable, every
\* candidate that answered 5xx is left with consecutive_errors one higher
\* than at the start and still available, and the responder's
\* consecutive_errors is 0.
C9_FailoverScenario ==
    [][\A c \in CycleIds :
          (/\ Answered(c)
           /\ IsSuccess(Answer(c))
           /\ \A k \in 1..Len(cyc[c].log) :
                 IsRateLimit(cyc[c].log[k]) \/ IsServerError(cyc[c].log[k])) =>
              /\ ReturnedCandidate(c)
              /\ provider'[Candidate(c)].consecutive_errors = 0
              /\ \A k \in 1..Len(cyc[c].log) :
                    LET e == cyc[c].log[k]
                        q == provider'[e.prov]
                    IN /\ IsRateLimit(e) => ~check_if_available(q, now').ret
                       /\ IsServerError(e) =>
                             /\ q.consecutive_errors
                                  = cyc[c].pre[e.prov].consecutive_errors + 1
                             /\ check_if_available(q, now').ret]_vars

\* C10: isAvailable() is false immediately after markRateLimited, whatever
\* the delay, and true once the clock has reached rate_limited_until; that
\* check clears is_rate_limited and rate_limited_until and resets
\* consecutive_errors to 0.
C10_CooldownWindow ==
    [][/\ \A c \in CycleIds :
             (Answered(c) /\ IsRateLimit(Answer(c))) =>
                 ~check_if_available(provider'[Candidate(c)], now').ret
       /\ \A id \in DOMAIN provider :
             (provider[id].is_rate_limited /\ CooldownPassed(provider[id], now)) =>
                 LET r == check_if_available(provider[id], now)
                 IN /\ r.ret
                    /\ ~r.self.is_rate_limited
                    /\ r.self.rate_limited_until = None
                    /\ r.self.consecutive_errors = 0]_vars

\* ---- the Provider methods and parse_retry_after, called one at a time -------
MaxCalls == 3

\* The object the methods are called on.
Subject == 1
RetryArgs == {None, Some(0), Some(2), Some(0 - 2), Some(HugeDelay)}
ErrorMessages == {"Timeout", "HTTP 500"}

Call(op) == [NoCall EXCEPT !.op = op, !.n = obs.n + 1, !.at = now]
OnSubject(op) == [Call(op) EXCEPT !.id = Subject, !.before = provider[Subject]]

CallIncrementRequestCount ==
    /\ obs.n < MaxCalls
    /\ provider' = [provider EXCEPT ![Subject] = increment_request_count(@, now)]
    /\ obs' = OnSubject("increment_request_count")
    /\ UNCHANGED << now, registry, cyc, started, attempts, t0, loads >>

CallMarkRateLimited(retry_after_seconds) ==
    /\ obs.n < MaxCalls
    /\ provider' = [provider EXCEPT
                      ![Subject] = mark_rate_limited(@, retry_after_seconds, now)]
    /\ obs' = [OnSubject("mark_rate_limited") EXCEPT
                 !.arg = retry_after_seconds,
                 !.raised = mark_rate_limited_raises(retry_after_seconds, now)]
    /\ UNCHANGED << now, registry, cyc, started, attempts, t0, loads >>

CallCheckIfAvailable ==
    /\ obs.n < MaxCalls
    /\ provider' = [provider EXCEPT ![Subject] = check_if_available(@, now).self]
    /\ obs' = [OnSubject("check_if_available") EXCEPT
                 !.ok = check_if_available(provider[Subject], now).ret]
    /\ UNCHANGED << now, registry, cyc, started, attempts, t0, loads >>

CallMarkSuccess ==
    /\ obs.n < MaxCalls
    /\ provider' = [provider EXCEPT ![Subject] = mark_success(@)]
    /\ obs' = OnSubject("mark_success")
    /\ UNCHANGED << now, registry, cyc, started, attempts, t0, loads >>

CallMarkError(error_message) ==
    /\ obs.n < MaxCalls
    /\ provider' = [provider EXCEPT ![Subject] = mark_error(@, error_message)]
    /\ obs' = [OnSubject("mark_error") EXCEPT !.msg = error_message]
    /\ UNCHANGED << now, registry, cyc, started, attempts, t0, loads >>

\* parse_retry_after on the headers of a response.
CallParseRetryAfter(ms, sec) ==
    /\ obs.n < MaxCalls
    /\ obs' = [Call("parse_retry_after") EXCEPT
                 !.ms = ms, !.sec = sec,
                 !.ret = parse_retry_after(Response(429, "json", None, ms, sec))]
    /\ UNCHANGED << now, provider, registry, cyc, started, attempts, t0, loads >>

ProviderNext ==
    \/ CallIncrementRequestCount
    \/ \E r \in RetryArgs : CallMarkRateLimited(r)
    \/ CallCheckIfAvailable
    \/ CallMarkSuccess
    \/ \E m \in ErrorMessages : CallMarkError(m)
    \/ \E ms \in MsHeaderValues, sec \in SecHeaderValues : CallParseRetryAfter(ms, sec)
    \/ \E d \in TickSteps : Tick(d)

SpecProvider == Init /\ [][ProviderNext]_vars

\* ---- claims about the Provider methods ---------------------------------------
\* The last direct call was op, on the object obs.id.
LastCall(op) == obs.op = op
Self == provider[obs.id]

\* C11: request_count is a day-scoped counter.  increment_request_count
\* called on the date recorded in last_reset adds 1 and keeps last_reset;
\* called on any other date (or before any date was recorded) it records the
\* current date and leaves request_count = 1.
C11_DailyCounter ==
    LastCall("increment_request_count") =>
        IF obs.before.last_reset = Some(Today(obs.at))
        THEN /\ Self.request_count = obs.before.request_count + 1
             /\ Self.last_reset = obs.before.last_reset
        ELSE /\ Self.request_count = 1
             /\ Self.last_reset = Some(Today(obs.at))

\* C11 witness: two calls on one day gave 2, and the call after the date
\* advanced gave 1.
C11_Witness ==
    /\ LastCall("increment_request_count")
    /\ obs.before.request_count = 2
    /\ obs.before.last_reset = Some(Today(obs.at) - 1)
    /\ Self.request_count = 1
    /\ Self.last_reset = Some(Today(obs.at))

\* C12: mark_rate_limited(n) sets is_rate_limited and, for every delay
\* n >= 0 that is passed, rate_limited_until = now + n; without a delay
\* rate_limited_until = now + 60.
C12_DelayHonoured ==
    LastCall("mark_rate_limited") =>
        /\ Self.is_rate_limited
        /\ (obs.arg # None /\ Val(obs.arg) >= 0) =>
               Self.rate_limited_until = Some(obs.at + Val(obs.arg))
        /\ obs.arg = None =>
               Self.rate_limited_until = Some(obs.at + DefaultCooldown)

\* C13: the delay of a 429 is taken from the millisecond header when its
\* value parses as an integer, whatever the whole-seconds header says;
\* otherwise from the whole-seconds header when that parses; otherwise no
\* delay is reported, and mark_rate_limited without a delay applies the
\* 60-second default.
C13_HeaderPrecedence ==
    /\ LastCall("parse_retry_after") =>
          /\ obs.ms.st = "int" =>
                /\ obs.ret # None
                /\ MsPerSecond * Val(obs.ret) <= obs.ms.v
                /\ obs.ms.v < MsPerSecond * (Val(obs.ret) + 1)
          /\ (obs.ms.st # "int" /\ obs.sec.st = "int") => obs.ret = Some(obs.sec.v)
          /\ (obs.ms.st # "int" /\ obs.sec.st # "int") => obs.ret = None
    /\ (LastCall("mark_rate_limited") /\ obs.arg = None) =>
          Self.rate_limited_until = Some(obs.at + DefaultCooldown)

\* C13 witness: both headers parse and disagree; the millisecond header won.
C13_Witness ==
    /\ LastCall("parse_retry_after")
    /\ obs.ms.st = "int"
    /\ obs.sec.st = "int"
    /\ obs.ret # Some(obs.sec.v)
    /\ obs.ret = Some(0)

\* C14 as stated: the millisecond header value is divided by 1000 and
\* truncated toward zero, for negative values too.
C14_TruncatesTowardZero ==
    (LastCall("parse_retry_after") /\ obs.ms.st = "int") =>
        obs.ret = Some(TruncDiv(obs.ms.v, MsPerSecond))

\* C14 amended: the millisecond header value is divided by 1000 rounding
\* toward minus infinity (Python's //): the result is the largest q with
\* 1000 * q <= value.  For values >= 0 that is truncation; a negative value
\* that is not a multiple of 1000 gives one less than truncation.
C14_FloorsTowardMinusInfinity ==
    (LastCall("parse_retry_after") /\ obs.ms.st = "int") =>
        /\ obs.ret # None
        /\ MsPerSecond * Val(obs.ret) <= obs.ms.v
        /\ obs.ms.v < MsPerSecond * Val(obs.ret) + MsPerSecond
        /\ obs.ms.v >= 0 => obs.ret = Some(TruncDiv(obs.ms.v, MsPerSecond))
        /\ (obs.ms.v < 0 /\ obs.ms.v % MsPerSecond # 0) =>
               obs.ret = Some(TruncDiv(obs.ms.v, MsPerSecond) - 1)

\* C14 witness: -1500 ms was reported as -2 s.
C14_Witness ==
    /\ LastCall("parse_retry_after")
    /\ obs.ms = IntHeader(0 - 1500)
    /\ obs.ret = Some(0 - 2)

\* ---- claims about the outbound payload ---------------------------------------
\* C15: in a cycle whose inbound payload has no model or model "default",
\* the payload in flight to a candidate carries that candidate's own model.
C15_OwnTargetModel ==
    \A c \in CycleIds :
        (cyc[c].pc = "await" /\ cyc[c].inbound_model \in {"<absent>", "default"}) =>
            cyc[c].sent.model
                = provider[cyc[c].available_providers[cyc[c].idx]].model

\* ---- concurrent inbound requests ---------------------------------------------
\* Two requests are served at once; their cycles interleave at the awaited
\* upstream calls.
\* One outcome of each class of the dispatcher.
ConcurrentOutcomes ==
    {Raised("TimeoutException"),
     Response(200, "json", Some(42), AbsentHeader, AbsentHeader),
     Response(404, "json", None, AbsentHeader, AbsentHeader),
     Response(500, "json", None, AbsentHeader, AbsentHeader),
     Response(429, "json", None, AbsentHeader, IntHeader(2))}

ConcurrentNext ==
    \/ \E c \in ConcurrentIds, rq \in Requests : Start(c, rq)
    \/ \E c \in ConcurrentIds, o \in ConcurrentOutcomes : Receive(c, o)
    \/ GetStatus
    \/ \E d \in TickSteps : Tick(d)

SpecConcurrent == Init /\ [][ConcurrentNext]_vars

\* C16: two interleaved cycles do not share payload state.  The payload a
\* cycle has in flight carries the model its own request named, or, when the
\* request named none (or "default"), the model of one of the candidates the
\* cycle itself has attempted; what the other cycle substituted never shows.
C16_PayloadPerCycle ==
    \A c \in ConcurrentIds :
        cyc[c].pc = "await" =>
            IF cyc[c].inbound_model \in {"<absent>", "default"}
            THEN \E k \in 1..cyc[c].idx :
                    cyc[c].sent.model = provider[cyc[c].available_providers[k]].model
            ELSE cyc[c].sent.model = cyc[c].inbound_model

\* C16 witness: two cycles are in flight at once, both with a substituted
\* model, and their payloads carry different models.
C16_Witness ==
    \E c, d \in ConcurrentIds :
        /\ c # d
        /\ cyc[c].pc = "await" /\ cyc[d].pc = "await"
        /\ cyc[c].inbound_model \in {"<absent>", "default"}
        /\ cyc[d].inbound_model \in {"<absent>", "default"}
        /\ cyc[c].sent.model # cyc[d].sent.model

\* ---- claims about token accounting --------------------------------------------
\* The step delivered to id a success (200-399) whose body reports tokens.
ReportedTokens(c, id) ==
    /\ Answered(c)
    /\ Candidate(c) = id
    /\ IsSuccess(Answer(c))
    /\ Answer(c).usage # None

\* C17: total_tokens_used of a provider grows by exactly the reported figure
\* in a step that delivers it a success (200-399) reporting a total-token
\* figure, and is unchanged by every other step.
C17_TokensOnSuccess ==
    [][\A id \in DOMAIN provider :
          IF \E c \in CycleIds : ReportedTokens(c, id)
          THEN \E c \in CycleIds :
                  /\ ReportedTokens(c, id)
                  /\ provider'[id].total_tokens_used
                        = provider[id].total_tokens_used + Val(Answer(c).usage)
          ELSE provider'[id].total_tokens_used = provider[id].total_tokens_used
      ]_vars

\* ---- POST /reload, lookups and status reads -----------------------------------
MaxReloads == 1

\* What POST /reload can find at its configuration path: no usable file, or a
\* provider list.  The lists drop the first provider and add one, all with
\* the same priority, or keep only the first one behind a provider that was
\* not configured before and has a higher priority number.  The names looked
\* up are the first provider's (as configured and in lower case) and the
\* added provider's.
ConfigEntry(i, prio) == [name |-> i, priority |-> prio]
ReloadConfigs ==
    {[k \in 1..NumProviders |-> ConfigEntry(k + 1, 1)],
     << ConfigEntry(NumProviders + 1, 2), ConfigEntry(1, 1) >>}
LookupNames ==
    {ConfigName(1), lower(ConfigName(1)), ConfigName(NumProviders + 1)}

\* Mutant: a provider whose name was loaded before keeps its runtime state.
load_providers_from_config_KeepsState(heap, config) ==
    LET n == Len(heap)
        same(k) == {j \in 1..n : heap[j].name = ConfigName(config[k].name)}
        newest(k) == CHOOSE j \in same(k) : \A m \in same(k) : m <= j
    IN [heap |-> [i \in 1..(n + Len(config)) |->
                     IF i <= n THEN heap[i]
                     ELSE IF same(i - n) # {}
                          THEN [heap[newest(i - n)] EXCEPT
                                   !.priority = config[i - n].priority]
                          ELSE NewProvider(config[i - n].name, config[i - n].priority,
                                           heap[1].endpoint_override)],
        ids |-> [k \in 1..Len(config) |-> n + k]]

\* load_providers_from_config: the heap with the new objects, and their ids in
\* load order.
load_providers_from_config(heap, config) ==
    LET n == Len(heap)
    IN [heap |-> [i \in 1..(n + Len(config)) |->
                     IF i <= n THEN heap[i]
                     ELSE NewProvider(config[i - n].name, config[i - n].priority,
                                      heap[1].endpoint_override)],
        ids |-> [k \in 1..Len(config) |-> n + k]]

\* Mutant: the new providers are added to the list in use.
Reload_KeepsOld(config) ==
    /\ Len(loads) <= MaxReloads
    /\ obs.n < MaxCalls
    /\ LET ld == load_providers_from_config(provider, config)
       IN /\ provider' = ld.heap
          /\ registry' = SortedByPriority(ld.heap, registry \o ld.ids)
          /\ loads' = Append(loads, {ld.ids[k] : k \in 1..Len(ld.ids)})
          /\ obs' = [Call("reload_config") EXCEPT !.ok = TRUE, !.total = Len(ld.ids)]
    /\ UNCHANGED << now, cyc, started, attempts, t0 >>

\* Mutant: the providers of the list in use are replaced one by one and the
\* replacement stops after the first.
Reload_HalfUpdated(config) ==
    /\ Len(loads) <= MaxReloads
    /\ obs.n < MaxCalls
    /\ LET ld == load_providers_from_config(provider, config)
           new == SortedByPriority(ld.heap, ld.ids)
       IN /\ provider' = ld.heap
          /\ registry' = IF new = << >> \/ registry = << >> THEN new
                         ELSE << Head(new) >> \o Tail(registry)
          /\ loads' = Append(loads, {ld.ids[k] : k \in 1..Len(ld.ids)})
          /\ obs' = [Call("reload_config") EXCEPT !.ok = TRUE, !.total = Len(ld.ids)]
    /\ UNCHANGED << now, cyc, started, attempts, t0 >>

\* POST /reload finds config: a new registry replaces the old one.
Reload(config) ==
    /\ Len(loads) <= MaxReloads
    /\ obs.n < MaxCalls
    /\ LET ld == load_providers_from_config(provider, config)
       IN /\ provider' = ld.heap
          /\ registry' = SortedByPriority(ld.heap, ld.ids)
          /\ loads' = Append(loads, {ld.ids[k] : k \in 1..Len(ld.ids)})
          /\ obs' = [Call("reload_config") EXCEPT !.ok = TRUE, !.total = Len(ld.ids)]
    /\ UNCHANGED << now, cyc, started, attempts, t0 >>

\* Mutant: the old registry is dropped before the file is read.
ReloadFails_DropsRegistry ==
    /\ obs.n < MaxCalls
    /\ registry' = << >>
    /\ obs' = [Call("reload_config") EXCEPT !.ok = FALSE]
    /\ UNCHANGED << now, provider, cyc, started, attempts, t0, loads >>

\* POST /reload fails (no file, bad YAML, a missing key): HTTP 500.
ReloadFails ==
    /\ obs.n < MaxCalls
    /\ obs' = [Call("reload_config") EXCEPT !.ok = FALSE]
    /\ UNCHANGED << now, provider, registry, cyc, started, attempts, t0, loads >>

\* registry.get_provider_by_name(name).
Lookup(name) ==
    /\ obs.n < MaxCalls
    /\ obs' = [Call("get_provider_by_name") EXCEPT
                 !.found = get_provider_by_name(provider, registry, name),
                 !.before = [NoCall.before EXCEPT !.name = name]]
    /\ UNCHANGED << now, provider, registry, cyc, started, attempts, t0, loads >>

\* GET /status or /stats, with the reply.
ReadStats ==
    /\ obs.n < MaxCalls
    /\ LET st == get_all_stats(provider, registry, now)
       IN /\ provider' = st.heap
          /\ obs' = [Call("get_all_stats") EXCEPT
                       !.ok = TRUE, !.listing = st.providers, !.listed = registry,
                       !.total = st.total_providers,
                       !.available = st.available_providers]
    /\ UNCHANGED << now, registry, cyc, started, attempts, t0, loads >>

\* The dispatches that run beside the reloads: one kind of request, and an
\* upstream that answers 200 or 429.
ReloadRequests == {Request("/v1/chat/completions", "<absent>", FALSE)}
ReloadOutcomes ==
    {Response(200, "json", Some(42), AbsentHeader, AbsentHeader),
     Response(429, "json", None, AbsentHeader, IntHeader(2))}

ReloadNext ==
    \/ \E c \in CycleIds, rq \in ReloadRequests : Start(c, rq)
    \/ \E c \in CycleIds, o \in ReloadOutcomes : Receive(c, o)
    \/ \E config \in ReloadConfigs : Reload(config)
    \/ ReloadFails
    \/ \E name \in LookupNames : Lookup(name)
    \/ ReadStats
    \/ \E d \in TickSteps : Tick(d)

SpecReload == Init /\ [][ReloadNext]_vars

\* ---- claims about reloading ----------------------------------------------------
Range(seq) == {seq[k] : k \in 1..Len(seq)}
NewestLoad == loads[Len(loads)]
\* The configured names of the objects of a load.
NamesOf(ids) == {provider[id].name : id \in ids}

\* C18: the registry holds exactly the providers of the newest configuration
\* load, each once.  A lookup by name returns none unless the newest load has
\* a provider of that name (ignoring case), so a removed provider is not found;
\* a stats snapshot lists exactly the newest load, with total_providers equal
\* to its size; a successful reload reports the size of the new registry.
C18_RegistryIsNewestLoad ==
    /\ Range(registry) = NewestLoad
    /\ Len(registry) = Cardinality(NewestLoad)
    /\ LastCall("get_provider_by_name") =>
          /\ obs.found # None =>
                /\ Val(obs.found) \in NewestLoad
                /\ lower(provider[Val(obs.found)].name) = lower(obs.before.name)
          /\ obs.found = None =>
                \A id \in NewestLoad :
                    lower(provider[id].name) # lower(obs.before.name)
    /\ LastCall("get_all_stats") =>
          /\ Range(obs.listed) = NewestLoad
          /\ obs.total = Cardinality(NewestLoad)
          /\ Len(obs.listing) = obs.total
          /\ {obs.listing[k].name : k \in 1..Len(obs.listing)} = NamesOf(NewestLoad)
    /\ (LastCall("reload_config") /\ obs.ok) => obs.total = Len(registry)

\* C18 witness: after a reload, the lookup of a name that only the replaced
\* configuration had returned none.
C18_Witness ==
    /\ Len(loads) = 2
    /\ LastCall("get_provider_by_name")
    /\ obs.before.name \in NamesOf(loads[1])
    /\ obs.before.name \notin NamesOf(loads[2])
    /\ obs.found = None

\* C19: a reload is atomic for its readers.  The registry is at every moment
\* the complete provider set of one configuration load; a stats snapshot lists
\* the complete set of one load; and a dispatch cycle works, from start to
\* return, on the providers of the one load the registry held when the cycle
\* started, whatever was reloaded meanwhile.
C19_ReloadAtomic ==
    /\ \E g \in 1..Len(loads) :
          Range(registry) = loads[g] /\ Len(registry) = Cardinality(loads[g])
    /\ LastCall("get_all_stats") =>
          \E g \in 1..Len(loads) :
              /\ Range(obs.listed) = loads[g]
              /\ Len(obs.listing) = Cardinality(loads[g])
    /\ \A c \in CycleIds :
          cyc[c].pc # "idle" =>
              /\ \E g \in 1..Len(loads) : Range(cyc[c].started_with) = loads[g]
              /\ Range(cyc[c].available_providers) \subseteq Range(cyc[c].started_with)
              /\ \A k \in 1..Len(cyc[c].log) :
                    cyc[c].log[k].prov = cyc[c].available_providers[k]
              /\ cyc[c].ret_provider \subseteq Range(cyc[c].started_with)

\* C19 witness: the cycle started before the reload (its heap snapshot has no
\* reloaded object), the reload came before the clock advanced, the first
\* candidate's 429 came after, and the cycle returned the answer of the second
\* candidate, a provider the registry no longer holds.
C19_Witness ==
    \E c \in CycleIds :
        /\ LastCall("reload_config") /\ obs.ok /\ obs.at = t0
        /\ Len(cyc[c].pre) < Len(provider)
        /\ cyc[c].pc = "done"
        /\ Len(cyc[c].log) = 2
        /\ IsRateLimit(cyc[c].log[1])
        /\ provider[cyc[c].log[1].prov].rate_limited_until
              = Some(t0 + DefaultCooldown + 2)
        /\ cyc[c].ret_provider = Some(cyc[c].log[2].prov)
        /\ cyc[c].log[2].prov \notin Range(registry)

\* ---- claims about concurrent counter updates -----------------------------------
\* The attempts cycle cy has made against id: the answered ones and the one
\* in flight.
AttemptsAgainst(cy, id) ==
    Cardinality({k \in 1..Len(cy.log) : cy.log[k].prov = id})
        + (IF cy.pc = "await" /\ cy.available_providers[cy.idx] = id THEN 1 ELSE 0)

\* The step starts cycle c / lets cycle c go on after an answer.
Starts(c) == started' # started /\ cyc'[c].serial = started'
GoesOn(c) == cyc[c].pc = "await" /\ cyc'[c] # cyc[c]

\* The attempts the step adds against id in cycle c.
NewAttempts(c, id) ==
    IF Starts(c) THEN AttemptsAgainst(cyc'[c], id)
    ELSE IF GoesOn(c) THEN AttemptsAgainst(cyc'[c], id) - AttemptsAgainst(cyc[c], id)
         ELSE 0

RECURSIVE SumNewAttempts(_, _)
SumNewAttempts(cs, id) ==
    IF cs = {} THEN 0
    ELSE LET c == CHOOSE x \in cs : TRUE
         IN NewAttempts(c, id) + SumNewAttempts(cs \ {c}, id)

\* The log entries the step adds to cycle c.
NewEntries(c) ==
    IF Starts(c) THEN 1..Len(cyc'[c].log)
    ELSE IF GoesOn(c) THEN (Len(cyc[c].log) + 1)..Len(cyc'[c].log)
         ELSE {}

\* C20: on the day the server started, with cycles interleaving, every step
\* raises each provider's request_count by exactly the number of attempts the
\* step makes against it, so the counter equals the attempts of all cycles;
\* and every attempt that ends in a recorded error (timeout, connection
\* failure, other exception, 4xx other than 429, 5xx) raises that provider's
\* consecutive_errors by exactly 1.
C20_NoLostUpdate ==
    [][Today(now) = Today(t0) =>
          /\ \A id \in DOMAIN provider :
                provider'[id].request_count
                    = provider[id].request_count + SumNewAttempts(ConcurrentIds, id)
          /\ \A c \in ConcurrentIds : \A k \in NewEntries(c) :
                LET e == cyc'[c].log[k]
                    was == IF Starts(c) THEN cyc'[c].pre[e.prov].consecutive_errors
                           ELSE provider[e.prov].consecutive_errors
                IN (IsClientError(e) \/ IsServerError(e) \/ IsTransportFailure(e)) =>
                       provider'[e.prov].consecutive_errors = was + 1
      ]_vars

\* C20 witness: on the starting day both cycles failed on one provider and
\* have an attempt in flight against the next; each counter shows both cycles.
C20_Witness ==
    \E c, d \in ConcurrentIds : \E id \in DOMAIN provider :
        /\ c # d
        /\ Today(now) = Today(t0)
        /\ cyc[c].pc = "await" /\ cyc[d].pc = "await"
        /\ cyc[c].available_providers[cyc[c].idx] = id
        /\ cyc[d].available_providers[cyc[d].idx] = id
        /\ provider[id].request_count = 2
        /\ \E j \in DOMAIN provider :
              j # id /\ provider[j].consecutive_errors = 2 /\ provider[j].request_count = 2

\* ---- claims about what the caller receives ---------------------------------------
\* The cycle returned the answer of a candidate; Last is that answer.
Returned(c) == cyc[c].pc = "done" /\ cyc[c].ret_provider # None
Last(c) == cyc[c].log[Len(cyc[c].log)]

\* C21: when the dispatch returns a non-retryable 4xx, the caller's response
\* has the upstream's status code and carries the upstream's body, for
\* streaming and non-streaming requests.
C21_ClientErrorVerbatim ==
    \A c \in CycleIds :
        (Returned(c) /\ IsClientError(Last(c))) =>
            /\ cyc[c].http.status = Last(c).status
            /\ cyc[c].http.body_of = cyc[c].ret_provider

\* C22: on a successful dispatch through either completion endpoint the
\* caller's response carries the returned provider as X-Provider and, as
\* X-Model, the model that was sent upstream in the returned attempt.
C22_InformationalHeaders ==
    \A c \in CycleIds :
        (Returned(c) /\ IsSuccess(Last(c))) =>
            /\ cyc[c].http.x_provider = cyc[c].ret_provider
            /\ cyc[c].http.x_model = cyc[c].json_model

\* ---- streaming replies -------------------------------------------------------------
MaxChunks == 2

\* Mutant: when the stream breaks after its first chunk the dispatcher goes
\* on with the next candidate.
Deliver_RetriesNextCandidate(c) ==
    /\ cyc[c].pc = "done"
    /\ cyc[c].http.kind = "StreamingResponse"
    /\ cyc[c].delivered < MaxChunks
    /\ LET r == IF cyc[c].delivered >= 1
                THEN RunLoop(provider, [cyc[c] EXCEPT !.idx = @ + 1], now)
                ELSE [heap |-> provider,
                      cy |-> [cyc[c] EXCEPT !.delivered = @ + 1]]
       IN /\ provider' = r.heap
          /\ cyc' = [cyc EXCEPT ![c] = r.cy]
    /\ UNCHANGED << now, registry, started, attempts, t0, loads, obs >>

\* The server sends the next chunk of response.aiter_bytes() to the caller.
\* client.post has read the whole upstream body before the handler returned,
\* so the chunks come from the buffered content.
Deliver(c) ==
    /\ cyc[c].pc = "done"
    /\ cyc[c].http.kind = "StreamingResponse"
    /\ cyc[c].delivered < MaxChunks
    /\ cyc' = [cyc EXCEPT ![c].delivered = @ + 1]
    /\ UNCHANGED << now, provider, registry, started, attempts, t0, loads, obs >>

StreamNext ==
    \/ \E c \in CycleIds, rq \in Requests : Start(c, rq)
    \/ \E c \in CycleIds, o \in ConcurrentOutcomes : Receive(c, o)
    \/ \E c \in CycleIds : Deliver(c)
    \/ \E d \in TickSteps : Tick(d)

SpecStream == Init /\ [][StreamNext]_vars

\* C23: bytes of a stream are handed to the caller only after the dispatch
\* has returned a candidate's response, and once the first chunk of a
\* request's stream has been handed over, no step makes a further attempt for
\* that request: its attempts, its returned provider and every provider's
\* request counter stay as they are until another request starts.
C23_SelectionBeforeBytes ==
    [][\A c \in CycleIds :
          /\ cyc'[c].delivered >= 1 =>
                /\ cyc'[c].pc = "done"
                /\ cyc'[c].stream
                /\ cyc'[c].ret_provider # None
          /\ (cyc[c].delivered >= 1 /\ ~Starts(c)) =>
                /\ cyc'[c].log = cyc[c].log
                /\ cyc'[c].ret_provider = cyc[c].ret_provider
                /\ cyc'[c].delivered >= cyc[c].delivered
                /\ \A id \in DOMAIN provider :
                      provider'[id].request_count = provider[id].request_count
      ]_vars

\* C23 witness: a streaming request failed over to its second candidate and
\* then the whole body was handed to the caller.
C23_Witness ==
    \E c \in CycleIds :
        /\ cyc[c].stream
        /\ cyc[c].delivered = MaxChunks
        /\ Len(cyc[c].log) = 2
        /\ cyc[c].ret_provider = Some(cyc[c].log[2].prov)

\* C24: the registry's list is in ascending priority order, and providers of
\* equal priority stand in the order in which their configuration listed them
\* (objects are constructed, and numbered, in that order), after every
\* startup and reload.
C24_SortedStable ==
    \A i, j \in 1..Len(registry) :
        i < j =>
            /\ provider[registry[i]].priority <= provider[registry[j]].priority
            /\ provider[registry[i]].priority = provider[registry[j]].priority
                  => registry[i] < registry[j]

\* C24 witness: a reload installed a list in which two providers have the
\* same priority.
C24_Witness ==
    /\ Len(loads) = 2
    /\ Len(registry) >= 2
    /\ provider[registry[1]].priority = provider[registry[2]].priority

\* ---- claims about availability -------------------------------------------------------
\* The answer is one the dispatcher records with mark_error.
IsRecordedError(e) == IsClientError(e) \/ IsServerError(e) \/ IsTransportFailure(e)

\* C25: recording an error does not change a provider's availability.  A
\* candidate whose attempt ends in a transport failure, a 5xx or a non-429
\* 4xx keeps is_rate_limited and rate_limited_until as they were, and
\* get_available_providers still returns it right after, however many errors
\* it has collected.
C25_ErrorKeepsAvailable ==
    [][\A c \in CycleIds :
          (Answered(c) /\ IsRecordedError(Answer(c))) =>
              /\ provider'[Candidate(c)].is_rate_limited
                    = provider[Candidate(c)].is_rate_limited
              /\ provider'[Candidate(c)].rate_limited_until
                    = provider[Candidate(c)].rate_limited_until
              /\ \E k \in 1..Len(cyc[c].started_with) :
                    get_available_providers(provider', cyc[c].started_with, now').ret[k]
                        = Candidate(c)
      ]_vars

\* C25 witness: a provider that already carried an error from an earlier
\* request was a candidate again, failed again, and is not rate limited.
C25_Witness ==
    \E c \in CycleIds :
        /\ Len(cyc[c].log) >= 1
        /\ IsRecordedError(cyc[c].log[1])
        /\ cyc[c].pre[cyc[c].log[1].prov].consecutive_errors = 1
        /\ provider[cyc[c].log[1].prov].consecutive_errors = 2
        /\ ~provider[cyc[c].log[1].prov].is_rate_limited

\* The step evaluates the availability checks: a request starts, or the
\* status is read.
ChecksAvailability ==
    \/ started' # started
    \/ (cyc' = cyc /\ now' = now /\ obs' = obs /\ provider' # provider)

\* C26: is_rate_limited goes from true to false only in a step that evaluates
\* the availability check, at or after rate_limited_until (which the check
\* clears with it); the answer of an attempt on a rate-limited provider
\* (success, error, another 429) leaves the flag set.
C26_OnlyCheckClears ==
    [][/\ \A id \in DOMAIN provider :
             (provider[id].is_rate_limited /\ ~provider'[id].is_rate_limited) =>
                 /\ ChecksAvailability
                 /\ CooldownPassed(provider[id], now)
                 /\ provider'[id].rate_limited_until = None
       /\ \A c \in ConcurrentIds :
             (Answered(c) /\ provider[Candidate(c)].is_rate_limited) =>
                 provider'[Candidate(c)].is_rate_limited
      ]_vars

\* C26 witness: both cycles got a 429 from the same provider, so the later
\* one arrived at a provider that was already rate limited; the flag is set.
C26_Witness ==
    \E c, d \in ConcurrentIds :
        /\ c # d
        /\ Len(cyc[c].log) >= 1 /\ Len(cyc[d].log) >= 1
        /\ IsRateLimit(cyc[c].log[1]) /\ IsRateLimit(cyc[d].log[1])
        /\ cyc[c].log[1].prov = cyc[d].log[1].prov
        /\ cyc[c].serial # 0 /\ cyc[d].serial # 0
        /\ provider[cyc[c].log[1].prov].is_rate_limited

\* C27: a provider whose is_rate_limited flag is set has rate_limited_until
\* set.
C27_LimitedHasDeadline ==
    \A id \in DOMAIN provider :
        provider[id].is_rate_limited => provider[id].rate_limited_until # None

\* ---- Lookup by name -------------------------------------------------------
\* Two names are equal ignoring case when they have the same letters.
SameIgnoringCase(a, b) == a.letters = b.letters

\* C28: a lookup by name returns a provider of the registry whose name equals
\* the queried name ignoring case whenever the registry has one, whatever the
\* case the query is written in, and returns none exactly when no provider of
\* the registry has such a name; the provider returned is never one of another
\* name.
C28_LookupIgnoresCase ==
    LastCall("get_provider_by_name") =>
        LET matching == {id \in Range(registry) :
                            SameIgnoringCase(provider[id].name, obs.before.name)}
        IN /\ (obs.found = None) <=> (matching = {})
           /\ obs.found # None => Val(obs.found) \in matching

\* C28 witness: a name queried in lower case found the provider configured
\* under the capitalised name.
C28_Witness ==
    /\ LastCall("get_provider_by_name")
    /\ ~obs.before.name.caps
    /\ obs.found # None
    /\ provider[Val(obs.found)].name.caps
    /\ provider[Val(obs.found)].name.letters = obs.before.name.letters

\* ---- The credential and the snapshot --------------------------------------
\* Credentials a configuration could have carried instead.
OtherKeys == {"key-a", "key-b"}
\* Every provider of the heap given the same other credential.
OtherAssignments(heap) == {[id \in DOMAIN heap |-> k] : k \in OtherKeys}
WithKey(p, k) == [p EXCEPT !.api_key = k]
WithKeys(heap, keys) == [id \in DOMAIN heap |-> WithKey(heap[id], keys[id])]
\* A provider without its credential.
Public(p) == [f \in DOMAIN p \ {"api_key"} |-> p[f]]

\* Dispatches, with an upstream that answers, fails or limits, beside the
\* stats requests.
SnapshotNext ==
    \/ \E c \in CycleIds, rq \in ReloadRequests : Start(c, rq)
    \/ \E c \in CycleIds, o \in ConcurrentOutcomes : Receive(c, o)
    \/ ReadStats
    \/ \E d \in TickSteps : Tick(d)

SpecSnapshot == Init /\ [][SnapshotNext]_vars

\* What an operation makes of a provider does not depend on its credential,
\* the Authorization header sent upstream apart.
SameWithoutKey(p, q, t) ==
    /\ Public(increment_request_count(q, t)) = Public(increment_request_count(p, t))
    /\ check_if_available(q, t).ret = check_if_available(p, t).ret
    /\ Public(check_if_available(q, t).self) = Public(check_if_available(p, t).self)
    /\ \A o \in ConcurrentOutcomes :
          /\ Classify(q, o, t).returns = Classify(p, o, t).returns
          /\ Public(Classify(q, o, t).self) = Public(Classify(p, o, t).self)
    /\ \A rq \in Requests :
          LET a == make_request_to_provider(p, rq.endpoint, rq.model)
              b == make_request_to_provider(q, rq.endpoint, rq.model)
          IN /\ a.raises = b.raises
             /\ a.json_model = b.json_model
             /\ a.request.url_endpoint = b.request.url_endpoint
             /\ a.request.model = b.request.model

WentOn(c, k) ==
    \/ k < Len(cyc'[c].log)
    \/ cyc'[c].pc = "await" /\ cyc'[c].idx > k
    \/ /\ cyc'[c].pc = "done"
       /\ cyc'[c].ret_provider = None
       /\ k = Len(cyc'[c].available_providers)

\* C30: no exception of an attempt escapes the dispatch cycle, and every
\* outcome is on the attempted provider's books when the step that handles it
\* ends.  An attempt that raised (before or during the upstream call) or was
\* answered 5xx counted one more consecutive error with an error text, and the
\* loop went on; a non-429 4xx counted one more error; a 429 left the provider
\* rate-limited and the loop went on; a success reset the error count and text;
\* every attempt is in request_count.  A dispatch ends only by returning a
\* candidate's response or, every candidate attempted, by returning none.
C30_NoExceptionEscapes ==
    [][\A c \in CycleIds :
          /\ \A k \in NewEntries(c) :
                LET e == cyc'[c].log[k]
                    id == cyc'[c].log[k].prov
                IN /\ id = cyc'[c].available_providers[k]
                   /\ provider'[id].request_count >= 1
                   /\ IsRecordedError(e) =>
                         /\ provider'[id].consecutive_errors =
                                provider[id].consecutive_errors + 1
                         /\ provider'[id].last_error # "None"
                   /\ IsRateLimit(e) => provider'[id].is_rate_limited
                   /\ IsSuccess(e) =>
                         /\ provider'[id].consecutive_errors = 0
                         /\ provider'[id].last_error = "None"
                   /\ IsRetryable(e) => WentOn(c, k)
          /\ (cyc[c].pc # "done" /\ cyc'[c].pc = "done") =>
                \/ /\ cyc'[c].ret_response # None
                   /\ cyc'[c].ret_provider =
                          Some(cyc'[c].log[Len(cyc'[c].log)].prov)
                   /\ ~IsRetryable(cyc'[c].log[Len(cyc'[c].log)])
                \/ /\ cyc'[c].ret_response = None
                   /\ cyc'[c].ret_provider = None
                   /\ Len(cyc'[c].log) = Len(cyc'[c].available_providers)
                   /\ \A k \in 1..Len(cyc'[c].log) : IsRetryable(cyc'[c].log[k])]_vars

\* C30 witness: every candidate's attempt raised before the upstream call
\* (the providers as loaded from the configuration); each has the error on its
\* books and the dispatch returned none.
C30_Witness ==
    \E c \in CycleIds :
        /\ cyc[c].pc = "done"
        /\ cyc[c].ret_provider = None
        /\ Len(cyc[c].log) = NumProviders
        /\ \A k \in 1..Len(cyc[c].log) :
              /\ cyc[c].log[k].kind = "Exception"
              /\ provider[cyc[c].log[k].prov].endpoint_override = "<no attribute>"
              /\ provider[cyc[c].log[k].prov].consecutive_errors >= 1
              /\ provider[cyc[c].log[k].prov].last_error = "Unexpected error"

\* ---- request_count and the attempts -----------------------------------------
\* C31: every step of a dispatch cycle adds exactly 1 to the request_count of
\* each candidate it attempts, whatever the outcome of the attempt, and leaves
\* the request_count of every other provider as it was.
C31_CountsAttempts ==
    [][\A id \in DOMAIN provider :
          provider'[id].request_count
              = provider[id].request_count + SumNewAttempts(CycleIds, id)]_vars

\* C31 as amended: request_count counts the attempts of the current day.  A
\* step of a dispatch cycle that attempts a candidate, whatever the outcome,
\* leaves its request_count at the count it had for the current date (0 when
\* last_reset is another date or none) plus 1, and leaves the request_count
\* and last_reset of every provider it does not attempt as they were.
C31_CountsAttemptsOfTheDay ==
    [][\A id \in DOMAIN provider :
          LET n == SumNewAttempts(CycleIds, id)
              today == IF provider[id].last_reset = Some(Today(now))
                       THEN provider[id].request_count ELSE 0
          IN /\ n = 0 =>
                   /\ provider'[id].request_count = provider[id].request_count
                   /\ provider'[id].last_reset = provider[id].last_reset
             /\ n > 0 =>
                   /\ provider'[id].request_count = today + n
                   /\ provider'[id].last_reset = Some(Today(now))]_vars

\* C31 witness: a provider attempted on the starting day, with a count of 1,
\* was attempted again by a dispatch of the next day and its count is 1.
C31_Witness ==
    \E c \in CycleIds :
        /\ Today(now) = Today(t0) + 1
        /\ Len(cyc[c].log) >= 1
        /\ LET id == cyc[c].log[1].prov
           IN /\ cyc[c].pre[id].request_count = 1
              /\ cyc[c].pre[id].last_reset = Some(Today(t0))
              /\ provider[id].request_count = 1
              /\ provider[id].last_reset = Some(Today(now))

\* ---- The program as shipped --------------------------------------------------
\* Every provider is an object load_providers_from_config constructed: none
\* has an endpoint_override attribute.
InitShipped ==
    /\ Init
    /\ \A i \in ProviderIds : provider[i].endpoint_override = "<no attribute>"

\* No attempt gets as far as the awaited call, so no answer is ever received.
ShippedNext ==
    \/ \E c \in CycleIds, rq \in Requests : Start(c, rq)
    \/ \E config \in ReloadConfigs : Reload(config)
    \/ ReloadFails
    \/ ReadStats
    \/ \E d \in TickSteps : Tick(d)

SpecShipped == InitShipped /\ [][ShippedNext]_vars

\* C32: a dispatch whose first candidate was loaded from the configuration,
\* and so has no endpoint override, sends that candidate the request on the
\* inbound endpoint path and waits for the answer; the missing override does
\* not fail the attempt and no error is recorded on the candidate.
C32_NoOverrideUsesInboundPath ==
    [][\A c \in CycleIds :
          (/\ Starts(c)
           /\ cyc'[c].available_providers # << >>
           /\ provider[cyc'[c].available_providers[1]].endpoint_override
                 = "<no attribute>") =>
              LET id == cyc'[c].available_providers[1]
              IN /\ cyc'[c].pc = "await"
                 /\ cyc'[c].idx = 1
                 /\ cyc'[c].log = << >>
                 /\ cyc'[c].sent.url_endpoint = cyc'[c].endpoint
                 /\ provider'[id].consecutive_errors
                       = cyc'[c].pre[id].consecutive_errors
                 /\ provider'[id].last_error = cyc'[c].pre[id].last_error]_vars

\* ---- Termination of a dispatch ----------------------------------------------
\* A dispatch is admitted only while the attempts left under MaxAttempts cover
\* every provider of the registry, so that the bound never holds up a dispatch
\* under way; every awaited call completes (client.post returns or raises,
\* the 60 s timeout included).
LiveNext ==
    \/ \E c \in CycleIds, rq \in Requests :
          attempts + Len(registry) <= MaxAttempts /\ Start(c, rq)
    \/ \E c \in CycleIds, o \in Outcomes : Receive(c, o)
    \/ \E d \in TickSteps : Tick(d)

SpecLive ==
    /\ Init
    /\ [][LiveNext]_vars
    /\ WF_vars(\E c \in CycleIds, o \in Outcomes : Receive(c, o))

\* What a finished dispatch returned.
IsSuccessOutcome(cy) ==
    /\ cy.ret_response # None /\ cy.ret_provider # None
    /\ Val(cy.ret_response).status >= 200 /\ Val(cy.ret_response).status <= 399
IsClientErrorOutcome(cy) ==
    /\ cy.ret_response # None /\ cy.ret_provider # None
    /\ Val(cy.ret_response).status >= 400 /\ Val(cy.ret_response).status <= 499
    /\ Val(cy.ret_response).status # 429
IsUnavailableOutcome(cy) == cy.ret_response = None /\ cy.ret_provider = None
\* The outbound attempts of a dispatch so far.
AttemptsMade(cy) == Len(cy.log) + (IF cy.pc = "await" THEN 1 ELSE 0)

\* C33: every dispatch whose awaited calls all complete ends, with exactly
\* one of Success, ClientError and Unavailable, and at no moment has it made
\* more attempts than providers were available when it started.
C33_Terminates ==
    /\ [](\A c \in CycleIds :
            /\ AttemptsMade(cyc[c]) <= Len(cyc[c].available_providers)
            /\ cyc[c].pc = "done" =>
                  Cardinality({x \in {"Success", "ClientError", "Unavailable"} :
                      \/ x = "Success" /\ IsSuccessOutcome(cyc[c])
                      \/ x = "ClientError" /\ IsClientErrorOutcome(cyc[c])
                      \/ x = "Unavailable" /\ IsUnavailableOutcome(cyc[c])}) = 1)
    /\ \A c \in CycleIds : (cyc[c].pc = "await") ~> (cyc[c].pc = "done")

\* C33 witness: a dispatch ended with the answer of its last candidate after
\* as many attempts as providers were available at its start, more than one.
C33_Witness ==
    \E c \in CycleIds :
        /\ cyc[c].pc = "done"
        /\ Len(cyc[c].available_providers) >= 2
        /\ Len(cyc[c].log) = Len(cyc[c].available_providers)
        /\ IsSuccessOutcome(cyc[c])

\* C34: mark_rate_limited overwrites.  After a call on a provider that was
\* already rate-limited, is_rate_limited is true and rate_limited_until is the
\* time of this call plus the delay passed to it, or plus 60 s when no delay
\* is passed, whatever expiry the earlier call had set.
C34_SecondCallOverwrites ==
    (LastCall("mark_rate_limited") /\ obs.before.is_rate_limited) =>
        /\ Self.is_rate_limited
        /\ obs.arg # None =>
               Self.rate_limited_until = Some(obs.at + Val(obs.arg))
        /\ obs.arg = None =>
               Self.rate_limited_until = Some(obs.at + DefaultCooldown)

\* ---- Cooldowns under interleaved dispatches ----------------------------------
\* An upstream that fails or limits.
CooldownOutcomes ==
    {Response(500, "json", None, AbsentHeader, AbsentHeader),
     Response(429, "json", None, AbsentHeader, IntHeader(2))}

\* Interleaved dispatches, each running until its candidates are exhausted:
\* the number of answers is bounded by the dispatches admitted.
CooldownNext ==
    \/ \E c \in ConcurrentIds, rq \in ReloadRequests : Start(c, rq)
    \/ \E c \in ConcurrentIds, o \in CooldownOutcomes :
          Completes(c, o) /\ attempts' = attempts
    \/ \E d \in TickSteps : Tick(d)

SpecCooldown == Init /\ [][CooldownNext]_vars

\* A provider inside an active cooldown at time t.
InCooldown(p, t) ==
    /\ p.is_rate_limited
    /\ p.rate_limited_until # None
    /\ t < Val(p.rate_limited_until)

\* C35: no outbound attempt is made against a provider that is inside an
\* active cooldown.  In every step in which a dispatch cycle attempts a
\* provider, that provider, as it is when the attempt is made (after the
\* availability check when the step starts the cycle), is not rate-limited
\* with the clock before rate_limited_until; under every interleaving of the
\* cycles.
C35_NoAttemptInCooldown ==
    [][\A c \in ConcurrentIds : \A id \in DOMAIN provider :
          NewAttempts(c, id) > 0 =>
              ~InCooldown(IF Starts(c) THEN cyc'[c].pre[id] ELSE provider[id], now)]_vars

\* C36: a stats snapshot is consistent in itself.  Its available_providers is
\* the number of entries of its providers list whose is_rate_limited is false,
\* and its total_providers is the length of that list.
C36_SnapshotConsistent ==
    LastCall("get_all_stats") =>
        /\ obs.available
              = Cardinality({k \in 1..Len(obs.listing) :
                                ~obs.listing[k].is_rate_limited})
        /\ obs.total = Len(obs.listing)

\* C37: the two error fields of a provider are in step: consecutive_errors is
\* greater than 0 exactly when last_error is set.
C37_ErrorFieldsInStep ==
    \A id \in DOMAIN provider :
        (provider[id].consecutive_errors > 0) <=> (provider[id].last_error # "None")

\* ---- Reloads that fail, reloads that succeed -----------------------------------
\* The step is a reload request that failed / succeeded.
ReloadFailed == obs'.op = "reload_config" /\ obs'.n = obs.n + 1 /\ ~obs'.ok
Reloaded == obs'.op = "reload_config" /\ obs'.n = obs.n + 1 /\ obs'.ok

\* C38: a reload that fails leaves the registry as it was: the same providers
\* in the same order, every provider object with the runtime state it had, and
\* the dispatches under way untouched; a dispatch started after it takes its
\* candidates from that registry.
C38_FailedReloadKeepsRegistry ==
    [][/\ ReloadFailed =>
             /\ registry' = registry
             /\ provider' = provider
             /\ loads' = loads
             /\ cyc' = cyc
       /\ \A c \in CycleIds :
             (Starts(c) /\ LastCall("reload_config") /\ ~obs.ok) =>
                 /\ cyc'[c].started_with = registry
                 /\ Range(registry) = NewestLoad
                 /\ Range(cyc'[c].available_providers) \subseteq Range(registry)
                 /\ cyc'[c].available_providers
                       = get_available_providers(provider, registry, now).ret]_vars

\* C38 witness: a reload failed at startup time; a dispatch of the next day
\* was answered by a provider of the registry loaded at startup, which has the
\* attempt on its books.
C38_Witness ==
    \E c \in CycleIds :
        /\ LastCall("reload_config") /\ ~obs.ok
        /\ obs.at = t0
        /\ Len(loads) = 1
        /\ Today(now) = Today(t0) + 1
        /\ cyc[c].pc = "done"
        /\ cyc[c].ret_provider # None
        /\ Val(cyc[c].ret_provider) \in Range(registry)
        /\ provider[Val(cyc[c].ret_provider)].last_reset = Some(Today(now))
        /\ provider[Val(cyc[c].ret_provider)].request_count = 1

\* A provider object as the constructor leaves it.
IsFresh(p) ==
    /\ ~p.is_rate_limited
    /\ p.rate_limited_until = None
    /\ p.request_count = 0
    /\ p.last_reset = None
    /\ p.consecutive_errors = 0
    /\ p.last_error = "None"
    /\ p.total_tokens_used = 0

\* C39: a successful reload puts into the registry provider objects that did
\* not exist before, each with fresh runtime state, also for a name that was
\* loaded before; and a step of a dispatch cycle that started on an earlier
\* registry changes no provider of the current registry.
C39_ReloadStartsFresh ==
    [][/\ Reloaded =>
             \A id \in Range(registry') :
                 /\ id \notin DOMAIN provider
                 /\ IsFresh(provider'[id])
       /\ \A c \in CycleIds :
             (GoesOn(c) /\ cyc[c].started_with # registry) =>
                 \A id \in Range(registry) : provider'[id] = provider[id]]_vars

\* C39 witness: a cycle started on the startup registry; the reload, before
\* the clock advanced, loaded a provider of a name the startup registry had;
\* the old object of that name then answered the cycle with 429 and is
\* rate-limited with a request counted, while the registry's object of that
\* name is fresh.
C39_Witness ==
    \E c \in CycleIds : \E new \in Range(registry) :
        /\ LastCall("reload_config") /\ obs.ok /\ obs.at = t0
        /\ Len(cyc[c].log) >= 1
        /\ LET old == cyc[c].log[1].prov
           IN /\ old \notin Range(registry)
              /\ provider[old].name = provider[new].name
              /\ IsRateLimit(cyc[c].log[1])
              /\ provider[old].rate_limited_until = Some(t0 + DefaultCooldown + 2)
              /\ provider[old].request_count = 1
              /\ IsFresh(provider[new])

====
